---- MODULE Spec2Model ----
(***************************************************************************)
(* The SOG export pipeline of LichtFeld Studio (lfs::core::write_sog,      *)
(* src/src/core_new/sogs.cpp) and its caller lfs::io::export_html          *)
(* (src/src/io/formats/html.cpp) as a state machine.                       *)
(*                                                                         *)
(* Numbers: floating-point values are carried as exact integers or         *)
(* fixed-point rationals (positions are integer coordinates, their         *)
(* logarithms and the opacities are in thousandths); a C++                 *)
(* static_cast to an unsigned integer type is a truncation, modelled by    *)
(* integer division.                                                       *)
(***************************************************************************)
EXTENDS Integers, Sequences, FiniteSets, TLC

(* ------------------------------ bounds -------------------------------- *)

\* The largest number of splats of an export.
MaxN == 2

(* ------------------------- program constants -------------------------- *)

CODEBOOK_CAP == 256
PALETTE_CAP == 64
CENTROID_TILE == 64
QUAT_TAG == 252
FILL_OPAQUE == 255
FILL_SH0 == 0
MORTON_BITS == 10

(* ----------------------------- arithmetic ----------------------------- *)

Min(a, b) == IF a <= b THEN a ELSE b

Max(a, b) == IF a >= b THEN a ELSE b

Abs(a) == IF a < 0 THEN -a ELSE a

Sgn(a) == IF a < 0 THEN -1 ELSE IF a > 0 THEN 1 ELSE 0

RECURSIVE Pow2(_)
Pow2(n) == IF n = 0 THEN 1 ELSE 2 * Pow2(n - 1)

\* floor(sqrt(m)) for 0 <= m < 2^20
ISqrt(m) == CHOOSE k \in 0..1024 : k * k <= m /\ (k + 1) * (k + 1) > m

\* The largest and the smallest element of a non-empty set of integers.
SetMax(S) == CHOOSE x \in S : \A y \in S : y <= x

SetMin(S) == CHOOSE x \in S : \A y \in S : x <= y

Range(s) == {s[i] : i \in 1..Len(s)}

\* All orderings of a finite set, as sequences without repetition.
Perms(S) == {p \in [1..Cardinality(S) -> S] : Range(p) = S}

\* 1-based position of v in the sequence s (v occurs in s).
IndexOf(s, v) == CHOOSE i \in 1..Len(s) : s[i] = v

(* ------------------------------- input -------------------------------- *)

(* One splat record of the caller's SplatData: position (means_raw),       *)
(* rotation (w,x,y,z, not normalised), log-space scale, opacity after the  *)
(* sigmoid in thousandths, DC colour and the [3][3] higher-order SH        *)
(* coefficients of degree 1, row-major as the tensor stores them.          *)
PointSamples ==
    { [pos |-> <<2, 0, -1>>,  rot |-> <<1, 0, 0, 0>>,   scale |-> <<0, -1, 1>>,
       opacity |-> 0,    sh0 |-> <<1, 0, -1>>, shN |-> <<1, 2, 3, 1, 2, 3, 1, 2, 3>>],
      [pos |-> <<-1, 1, 0>>,  rot |-> <<0, 0, 0, 0>>,   scale |-> <<1, 1, 0>>,
       opacity |-> 500,  sh0 |-> <<0, 0, 0>>,  shN |-> <<3, 3, 3, 2, 2, 2, 1, 1, 1>>],
      [pos |-> <<0, -3, 2>>,  rot |-> <<-1, 1, -2, 0>>, scale |-> <<-1, 0, -1>>,
       opacity |-> 1000, sh0 |-> <<-1, 1, 1>>, shN |-> <<1, 2, 3, 1, 2, 3, 1, 2, 3>>] }

PointSets == UNION {[1..n -> PointSamples] : n \in 0..MaxN}

\* SplatData::size()
NumSplats(pts) == Len(pts)

\* shN.size(1): coefficients beyond DC of SH degree d
ShCoeffs(d) == (d + 1) * (d + 1) - 1

(* -------------------------- texture dimensions ------------------------ *)

\* The significand width of the single-precision float the height is computed in.
FLOAT_MANTISSA == 24

\* ceil(sqrt(n)), by bisection
RECURSIVE CeilSqrtIn(_, _, _)
CeilSqrtIn(n, lo, hi) ==
    IF lo >= hi THEN lo
    ELSE LET mid == (lo + hi) \div 2
         IN  IF mid * mid >= n THEN CeilSqrtIn(n, lo, mid) ELSE CeilSqrtIn(n, mid + 1, hi)

CeilSqrt(n) == CeilSqrtIn(n, 0, Min(n, 46340))

\* floor(log2(n)) for n >= 1
RECURSIVE Log2Floor(_)
Log2Floor(n) == IF n < 2 THEN 0 ELSE 1 + Log2Floor(n \div 2)

\* num / den rounded to the nearest integer, ties to the even one
RoundNearestEven(num, den) ==
    LET f == num \div den
        r == num % den
    IN  IF 2 * r > den \/ (2 * r = den /\ f % 2 = 1) THEN f + 1 ELSE f

\* The conversion of the int64_t num_splats to float in `num_splats / (float)width`:
\* exact below 2^24, rounded to 24 significant bits from there on.
Float32OfInt(n) ==
    IF n < Pow2(FLOAT_MANTISSA) THEN n
    ELSE LET s == Pow2(Log2Floor(n) - (FLOAT_MANTISSA - 1))
         IN  RoundNearestEven(n, s) * s

\* The single-precision quotient a / b of two positive floats holding integers
\* (a < 2^23 * b, so that k >= 1 and qq * 2^k is even), as mant / 2^k with
\* mant rounded to 24 significant bits, ties to even.
Float32Quot(a, b) ==
    LET qq == a \div b
        r  == a % b
        k  == IF qq >= 1 THEN (FLOAT_MANTISSA - 1) - Log2Floor(qq)
              ELSE (FLOAT_MANTISSA - 1) + (CHOOSE j \in 1..FLOAT_MANTISSA :
                                             a * Pow2(j) >= b /\ a * Pow2(j - 1) < b)
    IN  [mant |-> qq * Pow2(k) + RoundNearestEven(r * Pow2(k), b),
         k    |-> k]

\* A plausible slip: the width not rounded up to a multiple of 4.
WidthUnrounded(n) == CeilSqrt(n)

\* ((int)std::ceil(std::sqrt(num_splats) / 4.0)) * 4
Width(n) == 4 * ((CeilSqrt(n) + 3) \div 4)

\* ((int)std::ceil(num_splats / (float)width / 4.0)) * 4: the quotient is a
\* float, the division by 4.0 and the ceil are exact in double.
Height(n) ==
    LET q == Float32Quot(Float32OfInt(n), Width(n))
    IN  4 * ((q.mant + Pow2(q.k + 2) - 1) \div Pow2(q.k + 2))

NumPixels(n) == Width(n) * Height(n)

\* std::vector<uint8_t>(width * height * CHANNELS, v), seen pixel by pixel
FilledPlane(npix, v) == [p \in 0..(npix - 1) |-> <<v, v, v, v>>]

(* ------------------------------ log_transform ------------------------- *)

\* std::log(k) in thousandths, for the magnitudes |value| + 1 of the samples
LnMilli(k) ==
    CASE k = 1 -> 0
      [] k = 2 -> 693
      [] k = 3 -> 1099
      [] k = 4 -> 1386
      [] k = 5 -> 1609

\* std::copysign(std::log(std::abs(value) + 1.0f), value)
log_transform(value) == Sgn(value) * LnMilli(Abs(value) + 1)

(* ----------------------------- pack_quaternion ------------------------ *)

\* A plausible slip: the components compared with their signs.
QuatMaxIdxSigned(q) ==
    LET m0 == 0
        m1 == IF q[2] > q[m0 + 1] THEN 1 ELSE m0
        m2 == IF q[3] > q[m1 + 1] THEN 2 ELSE m1
        m3 == IF q[4] > q[m2 + 1] THEN 3 ELSE m2
    IN  m3

\* The index of the component of greatest absolute value, first one winning
\* a tie (the comparisons are strict), 0 = w .. 3 = z.
QuatMaxIdx(q) ==
    LET m0 == 0
        m1 == IF Abs(q[2]) > Abs(q[m0 + 1]) THEN 1 ELSE m0
        m2 == IF Abs(q[3]) > Abs(q[m1 + 1]) THEN 2 ELSE m1
        m3 == IF Abs(q[4]) > Abs(q[m2 + 1]) THEN 3 ELSE m2
    IN  m3

\* A plausible slip: the component taken without the normalisation by the
\* length; an integer component then saturates the byte.
QuatByteUnnormalised(n, l2) == IF n > 0 THEN 255 ELSE IF n < 0 THEN 0 ELSE 127

\* static_cast<uint8_t>(std::clamp((c * 0.5f + 0.5f) * 255.0f, 0.0f, 255.0f)) for
\* c = sqrt(2) * n / sqrt(l2): floor(127.5 + 127.5 * sqrt(2) * n / sqrt(l2)), in
\* integers.  With r = 255 * sqrt(2) * |n| / sqrt(l2) the value is
\* floor((255 + r) / 2) for n >= 0 and floor((255 - r) / 2) for n < 0.
QuatByte(n, l2) ==
    LET num == 2 * 255 * 255 * n * n
        fl  == ISqrt(num \div l2)
        ce  == IF fl * fl * l2 = num THEN fl ELSE fl + 1
        v   == IF n >= 0 THEN (255 + fl) \div 2 ELSE (255 - ce) \div 2
    IN  Max(0, Min(255, v))

\* A plausible slip: the sign of the largest component left as it is.
pack_quaternion_unsigned(q0) ==
    LET l2o == q0[1] * q0[1] + q0[2] * q0[2] + q0[3] * q0[3] + q0[4] * q0[4]
        q   == IF l2o > 0 THEN q0 ELSE <<1, 0, 0, 0>>
        l2  == IF l2o > 0 THEN l2o ELSE 1
        mi  == QuatMaxIdx(q)
        rest == CASE mi = 0 -> <<2, 3, 4>>
                  [] mi = 1 -> <<1, 3, 4>>
                  [] mi = 2 -> <<1, 2, 4>>
                  [] OTHER  -> <<1, 2, 3>>
    IN  <<QuatByte(q[rest[1]], l2), QuatByte(q[rest[2]], l2),
          QuatByte(q[rest[3]], l2), (QUAT_TAG + mi) % 256>>

pack_quaternion(q0) ==
    LET l2o == q0[1] * q0[1] + q0[2] * q0[2] + q0[3] * q0[3] + q0[4] * q0[4]
        \* zero-length: replaced with the identity quaternion
        q1  == IF l2o > 0 THEN q0 ELSE <<1, 0, 0, 0>>
        l2  == IF l2o > 0 THEN l2o ELSE 1
        mi  == QuatMaxIdx(q1)
        \* ensure the largest component is positive
        q   == IF q1[mi + 1] < 0 THEN [i \in 1..4 |-> -q1[i]] ELSE q1
        rest == CASE mi = 0 -> <<2, 3, 4>>
                  [] mi = 1 -> <<1, 3, 4>>
                  [] mi = 2 -> <<1, 2, 4>>
                  [] OTHER  -> <<1, 2, 3>>
    IN  <<QuatByte(q[rest[1]], l2), QuatByte(q[rest[2]], l2),
          QuatByte(q[rest[3]], l2), (QUAT_TAG + mi) % 256>>

(* ------------------------- spatial reorderer -------------------------- *)

\* Bit-interleave helper: the bits of x spread to every third position.
RECURSIVE Part1By2(_)
Part1By2(x) == IF x = 0 THEN 0 ELSE (x % 2) + 8 * Part1By2(x \div 2)

\* floor((v - min) * 1024 / extent), clamped to 1023; 0 on an axis of zero extent
MortonQuant(v, mn, mx) ==
    IF mx = mn THEN 0
    ELSE Min(Pow2(MORTON_BITS) - 1, ((v - mn) * Pow2(MORTON_BITS)) \div (mx - mn))

\* morton_encode_new(means): one Morton code per point, over the bounding box
\* of all points.
morton_encode_new(pts) ==
    LET n == Len(pts)
        mn(a) == SetMin({pts[i].pos[a] : i \in 1..n})
        mx(a) == SetMax({pts[i].pos[a] : i \in 1..n})
    IN  [i \in 1..n |->
            Part1By2(MortonQuant(pts[i].pos[1], mn(1), mx(1)))
            + 2 * Part1By2(MortonQuant(pts[i].pos[2], mn(2), mx(2)))
            + 4 * Part1By2(MortonQuant(pts[i].pos[3], mn(3), mx(3)))]

\* morton_sort_indices_new(codes): the 0-based point indices, stably sorted by code
morton_sort_indices_new(codes) ==
    SortSeq([i \in 1..Len(codes) |-> i - 1],
            LAMBDA a, b : codes[a + 1] < codes[b + 1]
                          \/ (codes[a + 1] = codes[b + 1] /\ a < b))

\* A plausible slip: the Morton codes themselves used as the index array.
SortedIndicesCodes(pts) == morton_encode_new(pts)

\* auto indices_tensor = morton_sort_indices_new(morton_encode_new(means)).cpu()
SortedIndices(pts) == morton_sort_indices_new(morton_encode_new(pts))

(* ------------------------------ clustering ---------------------------- *)

\* What the clustering primitive hands back for the distinct values taken in
\* the order `order`: the centroids in that order and, per value, the 0-based
\* index of its centroid.
ClusterPrimitive(values, order) ==
    [centroids |-> order,
     labels    |-> [i \in 1..Len(values) |-> IndexOf(order, values[i]) - 1]]

\* The builder's post-processing: centroids re-sorted ascending by value and
\* every label remapped through the sort.
SortCodebook(km) ==
    LET sorted == SortSeq(km.centroids, LAMBDA a, b : a < b)
    IN  [centroids |-> sorted,
         labels    |-> [i \in 1..Len(km.labels) |->
                           IndexOf(sorted, km.centroids[km.labels[i] + 1]) - 1]]

\* cuda::kmeans_1d_new(values, k, iterations) for at most k distinct values.
\* `empty` is the pathological result of zero centroids; the labels then hold g.
kmeans_1d_new(values, order, empty, g) ==
    IF empty
    THEN [centroids |-> <<>>, labels |-> [i \in 1..Len(values) |-> g]]
    ELSE SortCodebook(ClusterPrimitive(values, order))

\* cuda::kmeans_new(points, k, iterations) on vectors: the distinct vectors as
\* palette entries, in the order the primitive produced them.
kmeans_new(vectors, k, order, empty) ==
    IF empty
    THEN [centroids |-> <<>>, labels |-> [i \in 1..Len(vectors) |-> 0], k |-> k]
    ELSE [centroids |-> ClusterPrimitive(vectors, order).centroids,
          labels    |-> ClusterPrimitive(vectors, order).labels,
          k         |-> k]

\* The orders in which a clustering call may return the centroids of `values`.
CentroidOrders(values) == Perms(Range(values))

\* The label array of a call that returns no centroid: taken as zero-filled.
ZeroCentroidLabels == {0}

\* scales_flat_data / colors_flat_data: the [N][3] attribute in column-major order
ColumnMajor(pts, attr) ==
    LET n == Len(pts)
    IN  [k \in 1..(3 * n) |->
            IF attr = "scale" THEN pts[((k - 1) % n) + 1].scale[((k - 1) \div n) + 1]
                              ELSE pts[((k - 1) % n) + 1].sh0[((k - 1) \div n) + 1]]

\* shN.reshape({N, sh_coeffs * 3}): one flat vector per point
ShVectors(pts) == [i \in 1..Len(pts) |-> pts[i].shN]

\* sh_centroids.flatten()
Flatten(vecs) ==
    IF Len(vecs) = 0 THEN <<>>
    ELSE [k \in 1..(Len(vecs) * Len(vecs[1])) |->
            vecs[((k - 1) \div Len(vecs[1])) + 1][((k - 1) % Len(vecs[1])) + 1]]

\* The palette size requested from the N-D clustering:
\* std::min(64, std::max(1, (int)std::pow(2, std::floor(std::log2(n / 1024.0)))) * 1024),
\* then std::min(palette_size, (int)n).
Pow2FloorLog2Div1024(n) ==
    IF n < 1024 THEN 0    \* 2^negative truncates to 0
    ELSE SetMax({p \in {Pow2(e) : e \in 0..20} : p * 1024 <= n})

PaletteSize(n) ==
    Min(Min(PALETTE_CAP, Max(1, Pow2FloorLog2Div1024(n)) * 1024), n)

(* ---------------------------- channel packers ------------------------- *)

\* means_log_data and its per-axis minimum and maximum
MeansLog(pts, idx, a) == log_transform(pts[idx + 1].pos[a])

MeansMin(pts, a) == SetMin({MeansLog(pts, i - 1, a) : i \in 1..Len(pts)})

MeansMax(pts, a) == SetMax({MeansLog(pts, i - 1, a) : i \in 1..Len(pts)})

\* static_cast<uint16_t>(65535 * std::clamp((v - min) * scale, 0.0f, 1.0f)) with
\* scale = 1 / (max - min + 1e-10f): the 1e-10 vanishes beside a non-zero range
\* and makes the quotient 0 for a zero range.
Means16(pts, idx, a) ==
    LET mn == MeansMin(pts, a)
        mx == MeansMax(pts, a)
        v  == MeansLog(pts, idx, a)
    IN  IF mx = mn THEN 0
        ELSE Max(0, Min(65535, (65535 * (v - mn)) \div (mx - mn)))

\* The loop bodies of the packers: the pixel written for source point idx.
MeansPixelL(pts, idx) ==
    <<Means16(pts, idx, 1) % 256, Means16(pts, idx, 2) % 256,
      Means16(pts, idx, 3) % 256, FILL_OPAQUE>>

\* A plausible slip: the high plane filled without the shift.
MeansPixelUNoShift(pts, idx) ==
    <<Means16(pts, idx, 1) % 256, Means16(pts, idx, 2) % 256,
      Means16(pts, idx, 3) % 256, FILL_OPAQUE>>

MeansPixelU(pts, idx) ==
    <<(Means16(pts, idx, 1) \div 256) % 256, (Means16(pts, idx, 2) \div 256) % 256,
      (Means16(pts, idx, 3) \div 256) % 256, FILL_OPAQUE>>

\* A plausible slip: a zero-length quaternion normalised as it is, 0 / 0 in
\* every component.
QuatPixelNoIdentity(pts, idx) ==
    IF pts[idx + 1].rot = <<0, 0, 0, 0>> THEN <<0, 0, 0, QUAT_TAG>>
    ELSE pack_quaternion(pts[idx + 1].rot)

QuatPixel(pts, idx) == pack_quaternion(pts[idx + 1].rot)

\* labels is the clustering's label array over the column-major values
LabelPixel(labels, n, idx) ==
    <<labels[idx + 1] % 256, labels[n + idx + 1] % 256,
      labels[2 * n + idx + 1] % 256, FILL_OPAQUE>>

\* A plausible slip: the opacity byte without the floor of 1.
AlphaByteUnclamped(opacity) == (255 * opacity) \div 1000

\* static_cast<uint8_t>(std::max(1.0f, 255.0f * opacity))
AlphaByte(opacity) == Max(1, (255 * opacity) \div 1000)

Sh0Pixel(labels, pts, idx) ==
    <<labels[idx + 1] % 256, labels[Len(pts) + idx + 1] % 256,
      labels[2 * Len(pts) + idx + 1] % 256, AlphaByte(pts[idx + 1].opacity)>>

ShLabelPixel(labels, idx) ==
    <<labels[idx + 1] % 256, (labels[idx + 1] \div 256) % 256, 0, FILL_OPAQUE>>

\* A per-point plane: pixel i holds the packed attributes of point indices[i];
\* the pixels from n on keep the fill value.
MeansLPlane(pts, ind) ==
    [p \in 0..(NumPixels(Len(pts)) - 1) |->
        IF p < Len(pts) THEN MeansPixelL(pts, ind[p + 1])
        ELSE <<FILL_OPAQUE, FILL_OPAQUE, FILL_OPAQUE, FILL_OPAQUE>>]

MeansUPlane(pts, ind) ==
    [p \in 0..(NumPixels(Len(pts)) - 1) |->
        IF p < Len(pts) THEN MeansPixelU(pts, ind[p + 1])
        ELSE <<FILL_OPAQUE, FILL_OPAQUE, FILL_OPAQUE, FILL_OPAQUE>>]

\* A plausible slip: the buffer left zero-initialised.
QuatsPlaneZeroFill(pts, ind) ==
    [p \in 0..(NumPixels(Len(pts)) - 1) |->
        IF p < Len(pts) THEN QuatPixel(pts, ind[p + 1])
        ELSE <<0, 0, 0, 0>>]

QuatsPlane(pts, ind) ==
    [p \in 0..(NumPixels(Len(pts)) - 1) |->
        IF p < Len(pts) THEN QuatPixel(pts, ind[p + 1])
        ELSE <<FILL_OPAQUE, FILL_OPAQUE, FILL_OPAQUE, FILL_OPAQUE>>]

\* A plausible slip: the label array read at the pixel index, not through the
\* permutation.
ScalesPlaneUnpermuted(labels, pts, ind) ==
    [p \in 0..(NumPixels(Len(pts)) - 1) |->
        IF p < Len(pts) THEN LabelPixel(labels, Len(pts), p)
        ELSE <<FILL_OPAQUE, FILL_OPAQUE, FILL_OPAQUE, FILL_OPAQUE>>]

ScalesPlane(labels, pts, ind) ==
    [p \in 0..(NumPixels(Len(pts)) - 1) |->
        IF p < Len(pts) THEN LabelPixel(labels, Len(pts), ind[p + 1])
        ELSE <<FILL_OPAQUE, FILL_OPAQUE, FILL_OPAQUE, FILL_OPAQUE>>]

Sh0Plane(labels, pts, ind) ==
    [p \in 0..(NumPixels(Len(pts)) - 1) |->
        IF p < Len(pts) THEN Sh0Pixel(labels, pts, ind[p + 1])
        ELSE <<FILL_SH0, FILL_SH0, FILL_SH0, FILL_SH0>>]

ShLabelsPlane(labels, pts, ind) ==
    [p \in 0..(NumPixels(Len(pts)) - 1) |->
        IF p < Len(pts) THEN ShLabelPixel(labels, ind[p + 1])
        ELSE <<FILL_OPAQUE, FILL_OPAQUE, FILL_OPAQUE, FILL_OPAQUE>>]

\* The centroid texture: 64 * sh_coeffs wide, ceil(palette / 64) high; pixel
\* i * sh_coeffs + j takes, in channel c, the label at i * (sh_coeffs * 3) + j +
\* c * sh_coeffs of the second-level clustering.
CentroidsWidth(coeffs) == CENTROID_TILE * coeffs

CentroidsHeight(palette) == (palette + CENTROID_TILE - 1) \div CENTROID_TILE

CentroidsPlane(labels, palette, coeffs) ==
    LET npix == CentroidsWidth(coeffs) * CentroidsHeight(palette)
        chan(i, j, c) ==
            LET centroid_idx == i * (coeffs * 3) + j + c * coeffs
            IN  IF centroid_idx < Len(labels) THEN labels[centroid_idx + 1] % 256
                ELSE FILL_OPAQUE
    IN  [p \in 0..(npix - 1) |->
            IF p < palette * coeffs
            THEN <<chan(p \div coeffs, p % coeffs, 0), chan(p \div coeffs, p % coeffs, 1),
                   chan(p \div coeffs, p % coeffs, 2), FILL_OPAQUE>>
            ELSE <<FILL_OPAQUE, FILL_OPAQUE, FILL_OPAQUE, FILL_OPAQUE>>]

(* ------------------------------- state -------------------------------- *)

VARIABLES
    pc,            \* the stage write_sog is about to run, or "html", or "done"
    caller,        \* "direct": write_sog called with the user's options;
                   \* "export_html": called for the temporary bundle of export_html
    points,        \* splat_data
    sh_degree,     \* splat_data.get_max_sh_degree()
    out_ext,       \* extension of options.output_path: "sog", "json", "other"
    has_callback,  \* whether the user gave a progress callback
    log,           \* history: callback invocations and write attempts, in order
    result,        \* what write_sog returned
    indices,       \* the Morton permutation
    archive,       \* the bundle at the output path
    dir,           \* the output directory and its loose files
    planes,        \* the plane buffers built so far, by file name
    km,            \* the clustering results so far, by channel
    meta,          \* the manifest under construction, by key
    html,          \* what export_html returned and embedded
    calc,          \* one evaluation of a pure function: its input and its output
    par,           \* one parallel packing loop: its workers, buffers and writes
    tmp,           \* the file at export_html's temporary bundle path
    exports,       \* the export_html calls in progress, by call
    pending_,                 \* NotificationPopup::pending_
    current_,                 \* NotificationPopup::current_
    popup_open_,              \* NotificationPopup::popup_open_
    displayed,                \* history: the notifications opened as a popup, in order
    shows,                    \* history: the number of show calls so far
    dragging_playhead_,       \* SequencerPanel::dragging_playhead_
    dragging_keyframe_,       \* SequencerPanel::dragging_keyframe_
    dragged_keyframe_index_,  \* SequencerPanel::dragged_keyframe_index_
    hovered_keyframe_,        \* SequencerPanel::hovered_keyframe_, -1 for nullopt
    scrubbing,                \* the controller between beginScrub and endScrub
    mouse_down,               \* the left mouse button as of the last frame
    selected_keyframe,        \* the controller's selected keyframe, -1 for none
    context_menu_open_,       \* SequencerPanel::context_menu_open_
    context_menu_keyframe_    \* SequencerPanel::context_menu_keyframe_, -1 for nullopt

inputs == <<caller, points, sh_degree, out_ext, has_callback>>

\* The state of the parallel-loop harness, of the export_html calls and of the
\* two GUI widgets: untouched by write_sog.
others == <<par, tmp, exports, pending_, current_, popup_open_, displayed, shows,
            dragging_playhead_, dragging_keyframe_, dragged_keyframe_index_,
            hovered_keyframe_, scrubbing, mouse_down, selected_keyframe,
            context_menu_open_, context_menu_keyframe_>>

vars == <<pc, caller, points, sh_degree, out_ext, has_callback, log, result,
          indices, archive, dir, planes, km, meta, html, calc, others>>

NoNotification == [id |-> 0, type |-> "INFO"]

\* The state write_sog and a single export_html work on.
writer == <<inputs, pc, log, result, indices, archive, dir, planes, km, meta, html, calc>>

\* The state of the notification popup and of the sequencer panel.
popup == <<pending_, current_, popup_open_, displayed, shows>>

panel == <<dragging_playhead_, dragging_keyframe_, dragged_keyframe_index_,
           hovered_keyframe_, scrubbing, mouse_down, selected_keyframe,
           context_menu_open_, context_menu_keyframe_>>

gui == <<popup, panel>>

\* No parallel loop running.
ParIdle == par = [loop |-> "none"]

\* No temporary bundle and no export_html call.
HtmlIdle ==
    /\ tmp = [state |-> "absent", owner |-> 0, mixed |-> FALSE]
    /\ exports = <<>>

\* Both widgets as constructed.
GuiIdle ==
    /\ pending_ = <<>>
    /\ current_ = NoNotification
    /\ popup_open_ = FALSE
    /\ displayed = <<>>
    /\ shows = 0
    /\ dragging_playhead_ = FALSE
    /\ dragging_keyframe_ = FALSE
    /\ dragged_keyframe_index_ = 0
    /\ hovered_keyframe_ = -1
    /\ scrubbing = FALSE
    /\ mouse_down = FALSE
    /\ selected_keyframe = -1
    /\ context_menu_open_ = FALSE
    /\ context_menu_keyframe_ = -1

OthersIdle == ParIdle /\ HtmlIdle /\ GuiIdle

N == NumSplats(points)

is_bundle == out_ext = "sog"

Running == [kind |-> "running", what |-> ""]

Ok == [kind |-> "ok", what |-> ""]

Cancelled == [kind |-> "cancelled", what |-> "Export cancelled"]

NoSplats == [kind |-> "input_error", what |-> "No splats to write"]

WriteFailed(name) == [kind |-> "write_failed", what |-> name]

\* the catch block: "SOG export failed: " + e.what()
Exception == [kind |-> "exception", what |-> "SOG export failed"]

NoCalc == [fn |-> "none", arg |-> 0, out |-> 0, done |-> FALSE]

Init ==
    /\ pc = "Initializing"
    /\ caller \in {"direct", "export_html"}
    /\ points \in PointSets
    /\ sh_degree \in {0, 1}
    /\ out_ext \in (IF caller = "export_html" THEN {"sog"} ELSE {"sog", "json", "other"})
    /\ has_callback \in BOOLEAN
    /\ log = <<>>
    /\ result = Running
    /\ indices = <<>>
    /\ archive = [state |-> "none", entries |-> {}]
    /\ dir = [created |-> FALSE, files |-> {}]
    /\ planes = <<>>
    /\ km = <<>>
    /\ meta = <<>>
    /\ html = [result |-> "none", embedded |-> {}]
    /\ OthersIdle
    /\ calc = NoCalc

(* --------------------------- progress callback ------------------------ *)

\* Whether options.progress_callback of write_sog is set: export_html always
\* passes its wrapper.
CbPresent == caller = "export_html" \/ has_callback

\* What options.progress_callback may return: the user's callback returns
\* either value; export_html's wrapper calls the user's callback, drops what
\* it returns, and returns true.
CbReturns ==
    IF caller = "export_html" THEN {TRUE}
    ELSE IF has_callback THEN BOOLEAN ELSE {TRUE}

\* A plausible slip: the callback's answer is dropped.
report_progress_ignored(present, r) == TRUE

\* report_progress: !options.progress_callback || options.progress_callback(p, stage)
report_progress(present, r) == ~present \/ r

CbEvent(stage, val, r) ==
    IF CbPresent THEN <<[kind |-> "cb", name |-> stage, val |-> val, ok |-> r]>>
    ELSE <<>>

(* ------------------------------ the sink ------------------------------ *)

\* ~SogArchive: archive_write_close finalises what was added so far into a
\* valid archive, unless a write into it had failed or it never opened.
CloseArchive(a) ==
    [a EXCEPT !.state = CASE a.state = "open"  -> "valid"
                          [] a.state = "error" -> "broken"
                          [] OTHER             -> a.state]

\* write_sog returns res: the archive object, if any, is destroyed.
Return(res, a) ==
    /\ result' = res
    /\ archive' = CloseArchive(a)
    /\ pc' = IF caller = "export_html" THEN "html" ELSE "done"

\* The ways a stage's writes can go: the first k succeed; if k is short of all,
\* write k + 1 fails in the encoder ("encode") or in the sink ("io").  Nothing
\* can be added to an archive that did not open.
Attempts(names) ==
    IF archive.state = "unopened"
    THEN {[k |-> 0, fail |-> "io"]}
    ELSE {[k |-> Len(names), fail |-> "none"]}
         \cup {[k |-> j, fail |-> f] : j \in 0..(Len(names) - 1), f \in {"encode", "io"}}

WriteEvents(names, att) ==
    [i \in 1..Min(att.k + 1, Len(names)) |->
        [kind |-> "write", name |-> names[i], val |-> 0, ok |-> (i <= att.k)]]

\* write_image in bundle mode: archive->add_webp
ArchiveAfter(a, names, att) ==
    IF ~is_bundle THEN a
    ELSE [state   |-> IF att.fail = "io" /\ a.state = "open" THEN "error" ELSE a.state,
          entries |-> a.entries \cup {names[i] : i \in 1..att.k}]

\* write_image otherwise: write_webp_image(base_path / filename)
DirAfter(d, names, att) ==
    IF is_bundle THEN d
    ELSE [d EXCEPT !.files = @ \cup {names[i] : i \in 1..att.k}]

\* A stage returns "Export cancelled" without doing anything else.
Cancel(stage, val, r) ==
    /\ log' = log \o CbEvent(stage, val, r)
    /\ Return(Cancelled, archive)
    /\ UNCHANGED <<inputs, others, calc, indices, dir, planes, km, meta, html>>

\* A plausible slip: the result of write_image is not looked at.
WriteStageUnchecked(names, att, next) ==
    /\ dir' = DirAfter(dir, names, att)
    /\ archive' = ArchiveAfter(archive, names, att)
    /\ pc' = next
    /\ result' = result

\* The tail of a stage that writes the planes `names`: the first failed write
\* returns "Failed to write <name>".
WriteStage(names, att, next) ==
    /\ dir' = DirAfter(dir, names, att)
    /\ IF att.k < Len(names)
       THEN Return(WriteFailed(names[att.k + 1]), ArchiveAfter(archive, names, att))
       ELSE /\ archive' = ArchiveAfter(archive, names, att)
            /\ pc' = next
            /\ result' = result

\* The size write_image encodes a plane with: width x height unless the call
\* gives its own, as the one for the centroid texture does.
PlaneDims(name) ==
    IF name = "shN_centroids.webp"
    THEN <<CentroidsWidth(ShCoeffs(sh_degree)), CentroidsHeight(Len(km["sh"].centroids))>>
    ELSE <<Width(N), Height(N)>>

(* ------------------------------ write_sog ----------------------------- *)

Initializing ==
    /\ pc = "Initializing"
    /\ \E r \in CbReturns :
        IF ~report_progress(CbPresent, r)
        THEN Cancel("Initializing", 0, r)
        ELSE /\ log' = log \o CbEvent("Initializing", 0, r)
             /\ IF N = 0
                THEN Return(NoSplats, archive)
                ELSE /\ pc' = "Loading data"
                     /\ UNCHANGED <<result, archive>>
             /\ UNCHANGED <<inputs, others, calc, indices, dir, planes, km, meta, html>>

\* A plausible slip: the stage goes on whatever the callback answered.
LoadingDataNoCancel ==
    /\ pc = "Loading data"
    /\ \E r \in CbReturns :
        /\ log' = log \o CbEvent("Loading data", 2, r)
        /\ pc' = "Morton sort"
        /\ UNCHANGED <<inputs, others, calc, result, indices, archive, dir, planes, km, meta, html>>

LoadingData ==
    /\ pc = "Loading data"
    /\ \E r \in CbReturns :
        IF ~report_progress(CbPresent, r)
        THEN Cancel("Loading data", 2, r)
        ELSE /\ log' = log \o CbEvent("Loading data", 2, r)
             /\ pc' = "Morton sort"
             /\ UNCHANGED <<inputs, others, calc, result, indices, archive, dir, planes, km, meta, html>>

\* The Morton permutation, then the sink: the archive is opened (the result of
\* archive_write_open_filename is not looked at) or the directory is created
\* (create_directories may throw).
MortonSort ==
    /\ pc = "Morton sort"
    /\ \E r \in CbReturns :
        IF ~report_progress(CbPresent, r)
        THEN Cancel("Morton sort", 5, r)
        ELSE \E opened \in BOOLEAN :
             /\ log' = log \o CbEvent("Morton sort", 5, r)
             /\ indices' = SortedIndices(points)
             /\ IF is_bundle
                THEN /\ archive' = [state   |-> IF opened THEN "open" ELSE "unopened",
                                    entries |-> {}]
                     /\ pc' = "Positions"
                     /\ UNCHANGED <<result, dir>>
                ELSE IF opened
                     THEN /\ dir' = [dir EXCEPT !.created = TRUE]
                          /\ pc' = "Positions"
                          /\ UNCHANGED <<result, archive>>
                     ELSE /\ Return(Exception, archive)
                          /\ UNCHANGED dir
             /\ UNCHANGED <<inputs, others, calc, planes, km, meta, html>>

Positions ==
    /\ pc = "Positions"
    /\ \E r \in CbReturns :
        IF ~report_progress(CbPresent, r)
        THEN Cancel("Positions", 10, r)
        ELSE \E att \in Attempts(<<"means_l.webp", "means_u.webp">>) :
             /\ log' = log \o CbEvent("Positions", 10, r)
                           \o WriteEvents(<<"means_l.webp", "means_u.webp">>, att)
             /\ planes' = planes @@ ("means_l.webp" :> MeansLPlane(points, indices))
                                 @@ ("means_u.webp" :> MeansUPlane(points, indices))
             /\ WriteStage(<<"means_l.webp", "means_u.webp">>, att, "Rotations")
             /\ UNCHANGED <<inputs, others, calc, indices, km, meta, html>>

Rotations ==
    /\ pc = "Rotations"
    /\ \E r \in CbReturns :
        IF ~report_progress(CbPresent, r)
        THEN Cancel("Rotations", 25, r)
        ELSE \E att \in Attempts(<<"quats.webp">>) :
             /\ log' = log \o CbEvent("Rotations", 25, r)
                           \o WriteEvents(<<"quats.webp">>, att)
             /\ planes' = planes @@ ("quats.webp" :> QuatsPlane(points, indices))
             /\ WriteStage(<<"quats.webp">>, att, "Scales k-means")
             /\ UNCHANGED <<inputs, others, calc, indices, km, meta, html>>

\* The ways one clustering call may go: centroids in any order, or none at all.
KmChoices(values) ==
    {[empty |-> FALSE, order |-> o, g |-> 0] : o \in CentroidOrders(values)}
    \cup {[empty |-> TRUE, order |-> <<>>, g |-> v] : v \in ZeroCentroidLabels}

ScalesKMeans ==
    /\ pc = "Scales k-means"
    /\ \E r \in CbReturns :
        IF ~report_progress(CbPresent, r)
        THEN Cancel("Scales k-means", 35, r)
        ELSE \E c \in KmChoices(ColumnMajor(points, "scale")),
                att \in Attempts(<<"scales.webp">>) :
             LET res == kmeans_1d_new(ColumnMajor(points, "scale"), c.order, c.empty, c.g)
             IN  /\ log' = log \o CbEvent("Scales k-means", 35, r)
                               \o WriteEvents(<<"scales.webp">>, att)
                 /\ km' = km @@ ("scales" :> res)
                 /\ planes' = planes @@ ("scales.webp" :> ScalesPlane(res.labels, points, indices))
                 /\ WriteStage(<<"scales.webp">>, att, "Colors k-means")
                 /\ UNCHANGED <<inputs, others, calc, indices, meta, html>>

\* The copy of a centroid tensor into the std::vector<float> put in the manifest.
\* A plausible slip: the copy loop filling the vector from the far end.
CodebookVectorReversed(centroids) ==
    [i \in 1..Len(centroids) |-> centroids[Len(centroids) + 1 - i]]

CodebookVector(centroids) == [i \in 1..Len(centroids) |-> centroids[i]]

\* meta["means"]: the cached per-axis minimum and maximum of the log positions
MetaMeans(pts) ==
    [mins  |-> [a \in 1..3 |-> MeansMin(pts, a)],
     maxs  |-> [a \in 1..3 |-> MeansMax(pts, a)],
     files |-> <<"means_l.webp", "means_u.webp">>]

\* meta.json as built right after sh0.webp is written
MetaBase(pts, kms) ==
    ("version" :> 2) @@ ("count" :> Len(pts))
    @@ ("width" :> Width(Len(pts))) @@ ("height" :> Height(Len(pts)))
    @@ ("means" :> MetaMeans(pts))
    @@ ("scales" :> [codebook |-> CodebookVector(kms["scales"].centroids),
                     files    |-> <<"scales.webp">>])
    @@ ("quats" :> [files |-> <<"quats.webp">>])
    @@ ("sh0" :> [codebook |-> CodebookVector(kms["colors"].centroids),
                  files    |-> <<"sh0.webp">>])

\* A plausible slip: the SH branch taken whatever the degree.
HasSHAnyDegree == N > 0

\* sh_degree > 0 && shN.is_valid() && shN.numel() > 0
HasSH == sh_degree > 0 /\ N > 0

ColorsKMeans ==
    /\ pc = "Colors k-means"
    /\ \E r \in CbReturns :
        IF ~report_progress(CbPresent, r)
        THEN Cancel("Colors k-means", 50, r)
        ELSE \E c \in KmChoices(ColumnMajor(points, "sh0")),
                att \in Attempts(<<"sh0.webp">>) :
             LET res == kmeans_1d_new(ColumnMajor(points, "sh0"), c.order, c.empty, c.g)
             IN  /\ log' = log \o CbEvent("Colors k-means", 50, r)
                               \o WriteEvents(<<"sh0.webp">>, att)
                 /\ km' = km @@ ("colors" :> res)
                 /\ planes' = planes @@ ("sh0.webp" :> Sh0Plane(res.labels, points, indices))
                 /\ meta' = IF att.k = 1 THEN MetaBase(points, km') ELSE meta
                 /\ WriteStage(<<"sh0.webp">>, att,
                               IF HasSH THEN "SH k-means" ELSE "Writing")
                 /\ UNCHANGED <<inputs, others, calc, indices, html>>

\* The shN entry of the manifest
MetaShN(codebook, palette, degree, coeffs) ==
    "shN" :> [codebook     |-> SubSeq(CodebookVector(codebook), 1,
                                      Min(CODEBOOK_CAP, Len(codebook))),
              palette_size |-> palette,
              bands        |-> degree,
              coeffs       |-> coeffs,
              files        |-> <<"shN_centroids.webp", "shN_labels.webp">>]

SHKMeans ==
    /\ pc = "SH k-means"
    /\ \E r \in CbReturns :
        IF ~report_progress(CbPresent, r)
        THEN Cancel("SH k-means", 65, r)
        ELSE \E c \in KmChoices(ShVectors(points)) :
             LET sh == kmeans_new(ShVectors(points), PaletteSize(N), c.order, c.empty)
             IN  IF Len(sh.centroids) = 0
                 THEN \* "SH clustering empty, skipping"
                      /\ log' = log \o CbEvent("SH k-means", 65, r)
                      /\ km' = km @@ ("sh" :> sh)
                      /\ pc' = "Writing"
                      /\ UNCHANGED <<inputs, others, calc, result, indices, archive, dir, planes, meta, html>>
                 ELSE \E c2 \in KmChoices(Flatten(sh.centroids)),
                         att \in Attempts(<<"shN_centroids.webp", "shN_labels.webp">>) :
                      LET cb == kmeans_1d_new(Flatten(sh.centroids), c2.order, c2.empty, c2.g)
                      IN  /\ log' = log \o CbEvent("SH k-means", 65, r)
                                        \o WriteEvents(<<"shN_centroids.webp", "shN_labels.webp">>, att)
                          /\ km' = km @@ ("sh" :> sh) @@ ("codebook" :> cb)
                          /\ planes' = planes
                                @@ ("shN_centroids.webp" :>
                                       CentroidsPlane(cb.labels, Len(sh.centroids), ShCoeffs(sh_degree)))
                                @@ ("shN_labels.webp" :> ShLabelsPlane(sh.labels, points, indices))
                          /\ meta' = IF att.k = 2
                                     THEN meta @@ MetaShN(cb.centroids, Len(sh.centroids),
                                                          sh_degree, ShCoeffs(sh_degree))
                                     ELSE meta
                          /\ WriteStage(<<"shN_centroids.webp", "shN_labels.webp">>, att, "Writing")
                          /\ UNCHANGED <<inputs, others, calc, indices, html>>

\* The file the manifest goes to outside a bundle: the output path itself when
\* it ends in .json, meta.json beside it otherwise.
MetaName == IF out_ext = "json" THEN "output.json" ELSE "meta.json"

\* A plausible slip: (1.0, "Complete") reported before the manifest write is
\* known to have succeeded.
WritingCompleteFirst ==
    /\ pc = "Writing"
    /\ \E r \in CbReturns :
        IF ~report_progress(CbPresent, r)
        THEN Cancel("Writing", 90, r)
        ELSE \E att \in {a \in Attempts(<<MetaName>>) : a.fail # "encode"},
                r2 \in CbReturns :
             /\ log' = log \o CbEvent("Writing", 90, r)
                           \o CbEvent("Complete", 100, r2)
                           \o [i \in 1..1 |-> [kind |-> "meta", name |-> MetaName,
                                               val |-> 0, ok |-> (att.k = 1)]]
             /\ dir' = DirAfter(dir, <<MetaName>>, att)
             /\ Return(IF att.k = 1 THEN Ok ELSE WriteFailed(MetaName),
                       ArchiveAfter(archive, <<MetaName>>, att))
             /\ UNCHANGED <<inputs, others, calc, indices, planes, km, meta, html>>

\* The manifest is written; (1.0, "Complete") is reported and what the
\* callback answers is not looked at.
Writing ==
    /\ pc = "Writing"
    /\ \E r \in CbReturns :
        IF ~report_progress(CbPresent, r)
        THEN Cancel("Writing", 90, r)
        ELSE \E att \in {a \in Attempts(<<MetaName>>) : a.fail # "encode"},
                r2 \in CbReturns :
             /\ log' = log \o CbEvent("Writing", 90, r)
                           \o [i \in 1..1 |-> [kind |-> "meta", name |-> MetaName,
                                               val |-> 0, ok |-> (att.k = 1)]]
                           \o (IF att.k = 1 THEN CbEvent("Complete", 100, r2) ELSE <<>>)
             /\ dir' = DirAfter(dir, <<MetaName>>, att)
             /\ Return(IF att.k = 1 THEN Ok ELSE WriteFailed(MetaName),
                       ArchiveAfter(archive, <<MetaName>>, att))
             /\ UNCHANGED <<inputs, others, calc, indices, planes, km, meta, html>>

(* ------------------------------ export_html --------------------------- *)

\* After save_sog returned: on failure the error is passed on; otherwise the
\* temporary bundle is read back, removed, and embedded in the page.
ExportHtmlReturn ==
    /\ pc = "html"
    /\ pc' = "done"
    /\ IF result.kind # "ok"
       THEN /\ html' = [result |-> "Failed to write SOG", embedded |-> {}]
            /\ UNCHANGED archive
       ELSE \E opened \in BOOLEAN :
            LET sog_data == IF archive.state \in {"valid", "broken"}
                            THEN archive.entries ELSE {}
            IN  /\ archive' = [archive EXCEPT !.state = "removed"]
                /\ html' = IF sog_data = {}
                           THEN [result |-> "Failed to read temporary SOG file", embedded |-> {}]
                           ELSE IF ~opened
                           THEN [result |-> "Failed to open output file", embedded |-> {}]
                           ELSE [result |-> "ok", embedded |-> sog_data]
    /\ UNCHANGED <<inputs, others, calc, log, result, indices, dir, planes, km, meta>>

Next ==
    \/ Initializing
    \/ LoadingData
    \/ MortonSort
    \/ Positions
    \/ Rotations
    \/ ScalesKMeans
    \/ ColorsKMeans
    \/ SHKMeans
    \/ Writing
    \/ ExportHtmlReturn

Spec == Init /\ [][Next]_vars

(* ---------------------- the palette size, on its own ------------------ *)

\* Bounds of the point counts the palette size is evaluated for: every count
\* up to MaxPaletteN and every multiple of 1024 up to MaxPaletteK * 1024.
MaxPaletteN == 130

MaxPaletteK == 70

PaletteInputs == (1..MaxPaletteN) \cup {1024 * k : k \in 1..MaxPaletteK}
                 \cup {1024 * k - 1 : k \in 1..MaxPaletteK}

InitPalette ==
    /\ pc = "done"
    /\ caller = "direct"
    /\ points = <<>>
    /\ sh_degree = 1
    /\ out_ext = "sog"
    /\ has_callback = FALSE
    /\ log = <<>>
    /\ result = Running
    /\ indices = <<>>
    /\ archive = [state |-> "none", entries |-> {}]
    /\ dir = [created |-> FALSE, files |-> {}]
    /\ planes = <<>>
    /\ km = <<>>
    /\ meta = <<>>
    /\ html = [result |-> "none", embedded |-> {}]
    /\ OthersIdle
    /\ \E n \in PaletteInputs : calc = [fn |-> "palette", arg |-> n, out |-> 0, done |-> FALSE]

\* The palette size write_sog computes for calc.arg splats.
ComputePalette ==
    /\ calc.fn = "palette"
    /\ ~calc.done
    /\ calc' = [calc EXCEPT !.out = PaletteSize(calc.arg), !.done = TRUE]
    /\ UNCHANGED <<inputs, others, pc, log, result, indices, archive, dir, planes, km, meta, html>>

NextPalette == ComputePalette

SpecPalette == InitPalette /\ [][NextPalette]_vars

(* ------------- the dimensions and the packers, on their own ----------- *)

\* The point counts the texture dimensions are evaluated for: every count up
\* to MaxDimN, and the counts 2^24 + d, d up to MaxDimD, where the conversion
\* of the count to float starts to round.
MaxDimN == 300

MaxDimD == 16400

DimInputs == (1..MaxDimN) \cup {Pow2(FLOAT_MANTISSA) + d : d \in 0..MaxDimD}

\* The rotations packed: every integer quaternion with components up to MaxQ
\* in absolute value, normalised by the packer itself.
MaxQ == 2

QuatInputs == [1..4 -> (-MaxQ)..MaxQ]

\* The position sets packed: up to MaxMeansN points taken from MeansSamples.
MaxMeansN == 3

MeansSamples ==
    { [pos |-> <<2, 0, -1>>], [pos |-> <<-1, 1, 0>>], [pos |-> <<0, -3, 2>>],
      [pos |-> <<4, -4, 1>>], [pos |-> <<1, 3, -2>>], [pos |-> <<-2, 2, 4>>] }

MeansInputs == UNION {[1..n -> MeansSamples] : n \in 1..MaxMeansN}

PackInputs ==
    {[fn |-> "dims", arg |-> n, out |-> <<>>, done |-> FALSE] : n \in DimInputs}
    \cup {[fn |-> "quat", arg |-> q, out |-> <<>>, done |-> FALSE] : q \in QuatInputs}
    \cup {[fn |-> "means", arg |-> pts, out |-> <<>>, done |-> FALSE] : pts \in MeansInputs}

InitPack ==
    /\ pc = "done"
    /\ caller = "direct"
    /\ points = <<>>
    /\ sh_degree = 0
    /\ out_ext = "sog"
    /\ has_callback = FALSE
    /\ log = <<>>
    /\ result = Running
    /\ indices = <<>>
    /\ archive = [state |-> "none", entries |-> {}]
    /\ dir = [created |-> FALSE, files |-> {}]
    /\ planes = <<>>
    /\ km = <<>>
    /\ meta = <<>>
    /\ html = [result |-> "none", embedded |-> {}]
    /\ OthersIdle
    /\ calc \in PackInputs

\* width and height as write_sog computes them for calc.arg splats
ComputeDims ==
    /\ calc.fn = "dims"
    /\ ~calc.done
    /\ calc' = [calc EXCEPT !.out = <<Width(calc.arg), Height(calc.arg)>>, !.done = TRUE]
    /\ UNCHANGED <<inputs, others, pc, log, result, indices, archive, dir, planes, km, meta, html>>

\* pack_quaternion on calc.arg and on its negation
ComputeQuat ==
    /\ calc.fn = "quat"
    /\ ~calc.done
    /\ calc' = [calc EXCEPT !.out = [q   |-> pack_quaternion(calc.arg),
                                     neg |-> pack_quaternion([i \in 1..4 |-> -calc.arg[i]])],
                            !.done = TRUE]
    /\ UNCHANGED <<inputs, others, pc, log, result, indices, archive, dir, planes, km, meta, html>>

\* The position stage on calc.arg: the permutation, both planes and the
\* manifest entry.
ComputeMeans ==
    /\ calc.fn = "means"
    /\ ~calc.done
    /\ calc' = [calc EXCEPT !.out = [ind  |-> SortedIndices(calc.arg),
                                     l    |-> MeansLPlane(calc.arg, SortedIndices(calc.arg)),
                                     u    |-> MeansUPlane(calc.arg, SortedIndices(calc.arg)),
                                     meta |-> MetaMeans(calc.arg)],
                            !.done = TRUE]
    /\ UNCHANGED <<inputs, others, pc, log, result, indices, archive, dir, planes, km, meta, html>>

NextPack ==
    \/ ComputeDims
    \/ ComputeQuat
    \/ ComputeMeans

SpecPack == InitPack /\ [][NextPack]_vars

(* ---------------------- the parallel packing loops --------------------- *)

\* The loops run on MaxParN points, their index range split among MaxWorkers
\* workers in every possible way.
MaxParN == 3

MaxWorkers == 2

Workers == 1..MaxWorkers

\* The splats, the permutation and the clustering results the loops read.
ParPoints == [i \in 1..MaxParN |-> CHOOSE s \in PointSamples : s.opacity = 500 * ((i - 1) % 3)]

ParIndices == SortedIndices(ParPoints)

ParLabels(attr) ==
    kmeans_1d_new(ColumnMajor(ParPoints, attr),
                  CHOOSE o \in CentroidOrders(ColumnMajor(ParPoints, attr)) : TRUE,
                  FALSE, 0).labels

ParSh ==
    kmeans_new(ShVectors(ParPoints), PaletteSize(MaxParN),
               CHOOSE o \in CentroidOrders(ShVectors(ParPoints)) : TRUE, FALSE)

ParCodebookLabels ==
    kmeans_1d_new(Flatten(ParSh.centroids),
                  CHOOSE o \in CentroidOrders(Flatten(ParSh.centroids)) : TRUE,
                  FALSE, 0).labels

ParCoeffs == ShCoeffs(1)

ParLoops == {"positions", "rotations", "scales", "colors", "sh_centroids", "sh_labels"}

\* tbb::blocked_range(0, n): the iterations of a loop
LoopRange(loop) ==
    IF loop = "sh_centroids" THEN 0..(Len(ParSh.centroids) - 1) ELSE 0..(MaxParN - 1)

\* The buffers a loop fills, as constructed before it
LoopBuffers(loop) ==
    CASE loop = "positions" ->
             ("means_l.webp" :> FilledPlane(NumPixels(MaxParN), FILL_OPAQUE))
             @@ ("means_u.webp" :> FilledPlane(NumPixels(MaxParN), FILL_OPAQUE))
      [] loop = "rotations" -> ("quats.webp" :> FilledPlane(NumPixels(MaxParN), FILL_OPAQUE))
      [] loop = "scales" -> ("scales.webp" :> FilledPlane(NumPixels(MaxParN), FILL_OPAQUE))
      [] loop = "colors" -> ("sh0.webp" :> FilledPlane(NumPixels(MaxParN), FILL_SH0))
      [] loop = "sh_centroids" ->
             ("shN_centroids.webp" :>
                 FilledPlane(CentroidsWidth(ParCoeffs) * CentroidsHeight(Len(ParSh.centroids)),
                             FILL_OPAQUE))
      [] loop = "sh_labels" -> ("shN_labels.webp" :> FilledPlane(NumPixels(MaxParN), FILL_OPAQUE))

\* A plausible slip: two neighbouring iterations sharing one target pixel.
TargetPixelShared(i) == i \div 2

\* const int ti = i
TargetPixel(i) == i

\* The stores of iteration i of a loop: buffer, pixel, channel (1..4), value.
IterWrites(loop, i) ==
    LET px(name, pix, chans, val) ==
            {[buf |-> name, pix |-> pix, ch |-> c, val |-> val[c]] : c \in chans}
    IN  CASE loop = "positions" ->
                 px("means_l.webp", TargetPixel(i), 1..3, MeansPixelL(ParPoints, ParIndices[i + 1]))
                 \cup px("means_u.webp", TargetPixel(i), 1..3, MeansPixelU(ParPoints, ParIndices[i + 1]))
          [] loop = "rotations" ->
                 px("quats.webp", TargetPixel(i), 1..4, QuatPixel(ParPoints, ParIndices[i + 1]))
          [] loop = "scales" ->
                 px("scales.webp", TargetPixel(i), 1..3,
                    LabelPixel(ParLabels("scale"), MaxParN, ParIndices[i + 1]))
          [] loop = "colors" ->
                 px("sh0.webp", TargetPixel(i), 1..4,
                    Sh0Pixel(ParLabels("sh0"), ParPoints, ParIndices[i + 1]))
          [] loop = "sh_centroids" ->
                 UNION {px("shN_centroids.webp", TargetPixel(i) * ParCoeffs + j, 1..3,
                           CentroidsPlane(ParCodebookLabels, Len(ParSh.centroids), ParCoeffs)
                               [i * ParCoeffs + j]) : j \in 0..(ParCoeffs - 1)}
          [] loop = "sh_labels" ->
                 px("shN_labels.webp", TargetPixel(i), 1..3,
                    ShLabelPixel(ParSh.labels, ParIndices[i + 1]))

\* The plane a loop leaves when its iterations run one after the other.
SequentialPlane(name) ==
    CASE name = "means_l.webp" -> MeansLPlane(ParPoints, ParIndices)
      [] name = "means_u.webp" -> MeansUPlane(ParPoints, ParIndices)
      [] name = "quats.webp" -> QuatsPlane(ParPoints, ParIndices)
      [] name = "scales.webp" -> ScalesPlane(ParLabels("scale"), ParPoints, ParIndices)
      [] name = "sh0.webp" -> Sh0Plane(ParLabels("sh0"), ParPoints, ParIndices)
      [] name = "shN_centroids.webp" ->
             CentroidsPlane(ParCodebookLabels, Len(ParSh.centroids), ParCoeffs)
      [] name = "shN_labels.webp" -> ShLabelsPlane(ParSh.labels, ParPoints, ParIndices)

\* write_sog not running.
WriterIdle ==
    /\ pc = "done"
    /\ caller = "direct"
    /\ points = <<>>
    /\ sh_degree = 1
    /\ out_ext = "sog"
    /\ has_callback = FALSE
    /\ log = <<>>
    /\ result = Running
    /\ indices = <<>>
    /\ archive = [state |-> "none", entries |-> {}]
    /\ dir = [created |-> FALSE, files |-> {}]
    /\ planes = <<>>
    /\ km = <<>>
    /\ meta = <<>>
    /\ html = [result |-> "none", embedded |-> {}]
    /\ calc = NoCalc

\* tbb::parallel_for starts: every split of the range among the workers
InitPar ==
    /\ WriterIdle
    /\ HtmlIdle
    /\ GuiIdle
    /\ \E loop \in ParLoops : \E owner \in [LoopRange(loop) -> Workers] :
          par = [loop |-> loop, owner |-> owner, todo |-> LoopRange(loop),
                 bufs |-> LoopBuffers(loop), writes |-> {}]

\* One worker runs one iteration of its share of the range.
ParIterate ==
    /\ par.loop \in ParLoops
    /\ \E i \in par.todo :
          LET w  == par.owner[i]
              ws == IterWrites(par.loop, i)
          IN  par' = [par EXCEPT
                        !.todo = @ \ {i},
                        !.bufs = [b \in DOMAIN par.bufs |->
                                    [p \in DOMAIN par.bufs[b] |->
                                       [c \in 1..4 |->
                                          IF \E x \in ws : x.buf = b /\ x.pix = p /\ x.ch = c
                                          THEN (CHOOSE x \in ws : x.buf = b /\ x.pix = p /\ x.ch = c).val
                                          ELSE par.bufs[b][p][c]]]],
                        !.writes = @ \cup {<<x.buf, 4 * x.pix + (x.ch - 1), w>> : x \in ws}]
    /\ UNCHANGED <<writer, tmp, exports, gui>>

NextPar == ParIterate

SpecPar == InitPar /\ [][NextPar]_vars

(* ---------------------- overlapping export_html calls ----------------- *)

\* The number of export_html calls in flight.
MaxExports == 2

Calls == 1..MaxExports

NoData == [owner |-> 0, state |-> "absent"]

CancelledSave == "Failed to write SOG: Export cancelled"

\* A call before its first statement: where it is, whether its archive object
\* is open and still the file at the path, whether the user's callback has
\* answered false, what it read back, what it returned.
NewCall ==
    [pc |-> "start", fd |-> "none", said_no |-> FALSE, data |-> NoData, result |-> "running"]

InitHtml ==
    /\ WriterIdle
    /\ ParIdle
    /\ GuiIdle
    /\ tmp = [state |-> "absent", owner |-> 0, mixed |-> FALSE]
    /\ exports = [p \in Calls |-> NewCall]

\* A plausible slip: the wrapper hands the user's answer on.
html_progress_wrapper_forward(u) == u

\* sog_options.progress_callback: calls the user's callback, returns true
html_progress_wrapper(u) == TRUE

\* options.progress_callback(0.0f, "Exporting SOG..."): the answer is dropped
HtmlStart(p) ==
    /\ exports[p].pc = "start"
    /\ \E u \in BOOLEAN :
          exports' = [exports EXCEPT ![p].pc = "stage",
                                     ![p].said_no = @ \/ ~u]
    /\ UNCHANGED <<writer, par, tmp, gui>>

\* A stage of write_sog reporting progress through the wrapper, before the
\* archive is created ("stage") and after ("packing").
HtmlProgress(p) ==
    /\ exports[p].pc \in {"stage", "packing"}
    /\ \E u \in BOOLEAN :
          IF report_progress(TRUE, html_progress_wrapper(u))
          THEN exports' = [exports EXCEPT
                              ![p].pc = IF @ = "stage" THEN "open" ELSE "close",
                              ![p].said_no = @ \/ ~u]
          ELSE exports' = [exports EXCEPT
                              ![p].pc = "done",
                              ![p].fd = "none",
                              ![p].said_no = TRUE,
                              ![p].result = CancelledSave]
    /\ UNCHANGED <<writer, par, tmp, gui>>

\* SogArchive(output_path): creates or truncates the file at the fixed
\* temporary path; a call that still has it open keeps writing into it.
HtmlArchiveOpen(p) ==
    /\ exports[p].pc = "open"
    /\ tmp' = [state |-> "partial", owner |-> p,
               mixed |-> \E q \in Calls \ {p} : exports[q].fd = "live"]
    /\ exports' = [exports EXCEPT ![p].pc = "packing", ![p].fd = "live"]
    /\ UNCHANGED <<writer, par, gui>>

\* write_sog ends and ~SogArchive closes the file: with success, or with an
\* error of its own that export_html passes on, leaving the file behind.
HtmlArchiveClose(p) ==
    /\ exports[p].pc = "close"
    /\ \E ok \in BOOLEAN :
          /\ exports' = [exports EXCEPT
                            ![p].pc = IF ok THEN "saved" ELSE "done",
                            ![p].fd = "none",
                            ![p].result = IF ok THEN @ ELSE "Failed to write SOG"]
          /\ tmp' = IF exports[p].fd = "live" /\ tmp.owner = p
                    THEN [tmp EXCEPT !.state = IF tmp.mixed \/ ~ok THEN "garbled"
                                               ELSE "complete"]
                    ELSE tmp
    /\ UNCHANGED <<writer, par, gui>>

\* read_file_binary(temp_sog); std::filesystem::remove(temp_sog); the empty
\* check.  Whatever is at the path is read, and removed under every call that
\* still has it open.
HtmlReadBack(p) ==
    /\ exports[p].pc = "saved"
    /\ \E u \in BOOLEAN :
          LET sog_data == [owner |-> tmp.owner, state |-> tmp.state]
          IN  exports' = [q \in Calls |->
                            IF q = p
                            THEN [exports[p] EXCEPT
                                     !.pc = IF tmp.state = "absent" THEN "done" ELSE "write",
                                     !.said_no = @ \/ ~u,
                                     !.data = IF tmp.state = "absent" THEN NoData ELSE sog_data,
                                     !.result = IF tmp.state = "absent"
                                                THEN "Failed to read temporary SOG file" ELSE @]
                            ELSE [exports[q] EXCEPT
                                     !.fd = IF @ = "live" THEN "unlinked" ELSE @]]
    /\ tmp' = [state |-> "absent", owner |-> 0, mixed |-> FALSE]
    /\ UNCHANGED <<writer, par, gui>>

\* generate_html, the output file, options.progress_callback(1.0f, "Done")
HtmlWritePage(p) ==
    /\ exports[p].pc = "write"
    /\ \E u \in BOOLEAN, opened \in BOOLEAN :
          exports' = [exports EXCEPT
                         ![p].pc = "done",
                         ![p].said_no = @ \/ ~u,
                         ![p].result = IF opened THEN "ok" ELSE "Failed to open output file"]
    /\ UNCHANGED <<writer, par, tmp, gui>>

NextHtml ==
    \E p \in Calls :
        \/ HtmlStart(p)
        \/ HtmlProgress(p)
        \/ HtmlArchiveOpen(p)
        \/ HtmlArchiveClose(p)
        \/ HtmlReadBack(p)
        \/ HtmlWritePage(p)

SpecHtml == InitHtml /\ [][NextHtml]_vars

(* --------------------------- NotificationPopup ------------------------ *)

\* The number of show calls.
MaxShows == 4

\* enum class Type
NotificationTypes == {"INFO", "WARNING", "ERROR"}

Ids(q) == [i \in 1..Len(q) |-> q[i].id]

InitPopup ==
    /\ WriterIdle
    /\ ParIdle
    /\ HtmlIdle
    /\ GuiIdle

\* NotificationPopup::show, called directly or by the DatasetLoadCompleted
\* handler; the notification carries the rank of its show call.
show ==
    /\ shows < MaxShows
    /\ \E type \in NotificationTypes :
          pending_' = Append(pending_, [id |-> shows + 1, type |-> type])
    /\ shows' = shows + 1
    /\ UNCHANGED <<writer, par, tmp, exports, current_, popup_open_, displayed, panel>>

\* A plausible slip: the front of the queue is taken while a popup is open.
render_front_unguarded == pending_ # <<>>

\* if (!popup_open_ && !pending_.empty())
render_front == ~popup_open_ /\ pending_ # <<>>

\* NotificationPopup::render.  displayed records each OpenPopup: whose it was
\* and whether a popup was open at that moment.  visible is what
\* BeginPopupModal returns, dismissed is the OK button or the Enter key.
render ==
    /\ \E visible \in BOOLEAN, dismissed \in BOOLEAN :
          LET take == render_front
              open == popup_open_ \/ take
          IN  /\ current_' = IF take THEN Head(pending_) ELSE current_
              /\ pending_' = IF take THEN Tail(pending_) ELSE pending_
              /\ displayed' = IF take
                              THEN Append(displayed, [id |-> Head(pending_).id,
                                                      over |-> popup_open_])
                              ELSE displayed
              /\ popup_open_' = (open /\ ~(visible /\ dismissed))
    /\ UNCHANGED <<writer, par, tmp, exports, shows, panel>>

NextPopup ==
    \/ show
    \/ render

SpecPopup == InitPopup /\ [][NextPopup]_vars

(* ------------------------ SequencerPanel timeline --------------------- *)

\* The most keyframes the timeline holds.
MaxKeyframes == 3

InitTimeline ==
    /\ WriterIdle
    /\ ParIdle
    /\ HtmlIdle
    /\ GuiIdle

\* SequencerPanel::renderTimeline, one frame.  Its inputs: the number of
\* keyframes, whether the left button is down (it is clicked in the frame it
\* goes down), whether the mouse is over the timeline, the keyframes whose
\* marker is within reach of the mouse, a right click, whether the context
\* menu is shown, and whether one of its entries that select the keyframe was
\* chosen.  The Delete key and the menu's delete entry act on the controller's
\* keyframes only, which are an input here.
renderTimeline ==
    \E nk \in 0..MaxKeyframes, down \in BOOLEAN, mouse_in_timeline \in BOOLEAN :
    \E near \in SUBSET (0..(nk - 1)), right \in BOOLEAN, shown \in BOOLEAN, chosen \in BOOLEAN :
        LET clicked  == down /\ ~mouse_down
            begin    == clicked /\ mouse_in_timeline /\ ~dragging_keyframe_
            playhead == dragging_playhead_ \/ begin
            hovered  == IF mouse_in_timeline THEN near ELSE {}
            hover    == IF hovered = {} THEN -1 ELSE SetMax(hovered)
            grabbed  == IF clicked THEN hovered \ {0} ELSE {}
            keyframe == dragging_keyframe_ \/ grabbed # {}
            menu     == mouse_in_timeline /\ right
            menu_kf  == IF menu THEN hover ELSE context_menu_keyframe_
            visible  == shown /\ (menu \/ context_menu_open_)
        IN  /\ mouse_down' = down
            /\ IF nk = 0
               THEN UNCHANGED <<dragging_playhead_, dragging_keyframe_,
                                dragged_keyframe_index_, hovered_keyframe_, scrubbing,
                                selected_keyframe, context_menu_open_,
                                context_menu_keyframe_>>
               ELSE /\ dragging_playhead_' = (playhead /\ down)
                    /\ scrubbing' = IF playhead /\ ~down THEN FALSE
                                    ELSE IF begin THEN TRUE ELSE scrubbing
                    /\ hovered_keyframe_' = hover
                    /\ dragged_keyframe_index_' = IF grabbed # {} THEN SetMax(grabbed)
                                                  ELSE dragged_keyframe_index_
                    /\ dragging_keyframe_' = (keyframe /\ down)
                    /\ context_menu_keyframe_' = menu_kf
                    /\ context_menu_open_' = visible
                    /\ selected_keyframe' =
                          IF visible /\ chosen /\ menu_kf \in 0..(nk - 1) THEN menu_kf
                          ELSE IF clicked /\ hovered # {} THEN hover
                          ELSE selected_keyframe
            /\ UNCHANGED <<writer, par, tmp, exports, popup>>

NextTimeline == renderTimeline

SpecTimeline == InitTimeline /\ [][NextTimeline]_vars

(* ============================ the claims ============================== *)

\* The callback invocations, in order.
CbLog == SelectSeq(log, LAMBDA e : e.kind = "cb")

\* The files written successfully, by the log.
WrittenOk == {log[i].name : i \in {j \in 1..Len(log) : log[j].kind \in {"write", "meta"} /\ log[j].ok}}

\* The files a write was attempted for.
WriteAttempted == {log[i].name : i \in {j \in 1..Len(log) : log[j].kind \in {"write", "meta"}}}

Returned == pc \in {"html", "done"}

NoOutputYet ==
    /\ archive = [state |-> "none", entries |-> {}]
    /\ dir = [created |-> FALSE, files |-> {}]
    /\ WriteAttempted = {}

(* C1: at every stage boundary from "Initializing" to "Writing", a callback   *)
(* that returns false makes write_sog return "Export cancelled", and nothing  *)
(* of that stage or a later one happens: the callback is the last event of    *)
(* the export (no later callback, plane write or manifest write) and no       *)
(* plane, clustering result, manifest entry or sink of that stage or a later  *)
(* one exists.                                                                *)
StageNames ==
    <<"Initializing", "Loading data", "Morton sort", "Positions", "Rotations",
      "Scales k-means", "Colors k-means", "SH k-means", "Writing">>

StageNo(stage) == IndexOf(StageNames, stage)

\* The stage that builds and writes a file, or runs a clustering.
FileStage(name) ==
    CASE name \in {"means_l.webp", "means_u.webp"} -> StageNo("Positions")
      [] name = "quats.webp" -> StageNo("Rotations")
      [] name \in {"scales.webp", "scales"} -> StageNo("Scales k-means")
      [] name \in {"sh0.webp", "colors"} -> StageNo("Colors k-means")
      [] name \in {"shN_centroids.webp", "shN_labels.webp", "sh", "codebook"} -> StageNo("SH k-means")
      [] OTHER -> StageNo("Writing")

NothingFrom(s) ==
    /\ \A name \in DOMAIN planes \cup DOMAIN km \cup WriteAttempted : FileStage(name) < s
    /\ s <= StageNo("Morton sort") => (indices = <<>> /\ NoOutputYet)
    /\ s <= StageNo("Colors k-means") => meta = <<>>
    /\ s <= StageNo("SH k-means") => "shN" \notin DOMAIN meta

C1_CancelStopsExport ==
    \A i \in 1..Len(log) :
        (log[i].kind = "cb" /\ log[i].name # "Complete" /\ ~log[i].ok)
        => /\ i = Len(log)
           /\ result = Cancelled
           /\ Returned
           /\ NothingFrom(StageNo(log[i].name))

C1_Witness ==
    /\ result = Cancelled
    /\ Len(log) > 0
    /\ log[Len(log)] = [kind |-> "cb", name |-> "Scales k-means", val |-> 35, ok |-> FALSE]
    /\ "quats.webp" \in WrittenOk

(* C2: if the second callback invocation of an export returns false, the      *)
(* export has returned the cancellation result and no plane, no manifest, no  *)
(* archive and no output directory exists at the final location.              *)
C2_CancelAtSecondStage ==
    (Len(CbLog) >= 2 /\ ~CbLog[2].ok)
    => (result = Cancelled /\ Returned /\ NoOutputYet /\ Len(CbLog) = 2)

C2_Witness ==
    /\ Len(CbLog) = 2
    /\ ~CbLog[2].ok
    /\ CbLog[2].name = "Loading data"
    /\ N > 0

(* C3: in bundle mode, an export that ended in an error or a cancellation     *)
(* after the archive was constructed leaves no valid-but-incomplete archive:  *)
(* the archive holds every plane and meta.json, or it is not a valid archive, *)
(* or it was removed.                                                         *)
PerPointFiles == {"means_l.webp", "means_u.webp", "quats.webp", "scales.webp", "sh0.webp"}

ShFiles == {"shN_centroids.webp", "shN_labels.webp"}

ShEmitted == HasSH /\ "sh" \in DOMAIN km /\ Len(km["sh"].centroids) > 0

C3_NoValidIncompleteArchive ==
    (is_bundle /\ pc = "done" /\ result.kind # "ok" /\ archive.state # "none")
    => \/ (PerPointFiles \cup {"meta.json"}) \subseteq archive.entries
       \/ archive.state \in {"broken", "unopened", "removed"}

(* C4: write_sog returns success only when every plane of every emitted       *)
(* channel and the manifest were written successfully; a failed write of a    *)
(* plane or of the manifest is the last write attempted, and the export       *)
(* returns an error naming it.                                                *)
C4_SuccessMeansAllWritten ==
    /\ result = Ok
       => /\ PerPointFiles \cup {MetaName} \subseteq WrittenOk
          /\ ShEmitted => ShFiles \subseteq WrittenOk
          /\ WrittenOk \subseteq (IF is_bundle THEN archive.entries ELSE dir.files)
    /\ \A i \in 1..Len(log) :
          (log[i].kind \in {"write", "meta"} /\ ~log[i].ok)
          => (i = Len(log) /\ result = WriteFailed(log[i].name) /\ Returned)

C4_Witness ==
    /\ result = WriteFailed("shN_labels.webp")
    /\ "shN_centroids.webp" \in WrittenOk

(* C5: write_sog on an empty point set always returns "No splats to write"    *)
(* and has no side effect: no directory, archive, plane or manifest, and no   *)
(* pipeline stage run.                                                        *)
C5_EmptyInputError ==
    (N = 0 /\ Returned)
    => (result = NoSplats /\ NoOutputYet /\ planes = <<>> /\ km = <<>> /\ meta = <<>>)

(* C6: for every clustered channel (scales, colour DC, SH), a clustering call *)
(* that returns zero centroids makes the channel skipped: no plane of it is   *)
(* written, no manifest entry is added for it, and the export does not end in *)
(* an error because of it.                                                    *)
ChannelFiles(c) ==
    CASE c = "scales" -> {"scales.webp"}
      [] c = "colors" -> {"sh0.webp"}
      [] c = "sh"     -> ShFiles

ChannelKey(c) ==
    CASE c = "scales" -> "scales"
      [] c = "colors" -> "sh0"
      [] c = "sh"     -> "shN"

C6_ZeroCentroidsSkipChannel ==
    \A c \in {"scales", "colors", "sh"} \cap DOMAIN km :
        Len(km[c].centroids) = 0
        => /\ ChannelFiles(c) \cap WriteAttempted = {}
           /\ ChannelKey(c) \notin DOMAIN meta
           /\ result.kind \in {"running", "ok", "cancelled"}

(* C7: for N >= 1 points the index sequence the reorderer produces, which     *)
(* every packer reads, has N entries and every index 0..N-1 appears in it     *)
(* exactly once.                                                              *)
PastMortonSort ==
    pc \in {"Positions", "Rotations", "Scales k-means", "Colors k-means", "SH k-means", "Writing"}

C7_PermutationBijection ==
    (PastMortonSort \/ planes # <<>>)
    => /\ Len(indices) = N
       /\ \A v \in 0..(N - 1) : Cardinality({i \in 1..N : indices[i] = v}) = 1

C7_Witness ==
    /\ pc = "Positions"
    /\ N = 2
    /\ indices = <<1, 0>>

(* C8: one permutation is used by all packers: pixel i < N of every per-point *)
(* plane built (means_l, means_u, quats, scales, sh0, shN_labels) is the      *)
(* encoding of the attributes of input point indices[i].                      *)
ExpectedPixel(name, idx) ==
    CASE name = "means_l.webp"    -> MeansPixelL(points, idx)
      [] name = "means_u.webp"    -> MeansPixelU(points, idx)
      [] name = "quats.webp"      -> QuatPixel(points, idx)
      [] name = "scales.webp"     -> LabelPixel(km["scales"].labels, N, idx)
      [] name = "sh0.webp"        -> Sh0Pixel(km["colors"].labels, points, idx)
      [] name = "shN_labels.webp" -> ShLabelPixel(km["sh"].labels, idx)

C8_OnePermutationAllPlanes ==
    \A name \in DOMAIN planes \ {"shN_centroids.webp"} :
        \A i \in 0..(N - 1) : planes[name][i] = ExpectedPixel(name, indices[i + 1])

C8_Witness ==
    /\ "shN_labels.webp" \in DOMAIN planes
    /\ indices = <<1, 0>>
    /\ \A name \in DOMAIN planes \ {"shN_centroids.webp"} : planes[name][0] # planes[name][1]

(* C9: every codebook written to the manifest (scales, sh0, shN) is sorted    *)
(* ascending: codebook[i] <= codebook[i+1] for all i.                         *)
Ascending(s) == \A i \in 1..(Len(s) - 1) : s[i] <= s[i + 1]

C9_CodebooksAscending ==
    \A key \in {"scales", "sh0", "shN"} \cap DOMAIN meta : Ascending(meta[key].codebook)

C9_Witness ==
    /\ "shN" \in DOMAIN meta
    /\ Len(meta["shN"].codebook) = 3
    /\ Len(meta["scales"].codebook) = 3
    /\ Len(meta["sh0"].codebook) = 3
    /\ "meta.json" \in WrittenOk

(* C10: for every point count N the palette size requested from the N-D       *)
(* clustering is clamp(pow2_floor(N / 1024) * 1024, 1024, min(64 * 1024, N)). *)
Pow2Floor(x) == IF x < 1 THEN 0 ELSE SetMax({p \in {Pow2(e) : e \in 0..20} : p <= x})

Clamp(x, lo, hi) == Min(Max(x, lo), hi)

C10_PaletteSizeFormula ==
    (calc.fn = "palette" /\ calc.done)
    => calc.out = Clamp(Pow2Floor(calc.arg \div 1024) * 1024, 1024,
                        Min(64 * 1024, calc.arg))

(* C11: for every N >= 1 the texture width and height computed for N splats  *)
(* are both positive multiples of 4 and width * height >= N.                  *)
C11_TextureDimensions ==
    (calc.fn = "dims" /\ calc.done)
    => /\ calc.out[1] > 0 /\ calc.out[1] % 4 = 0
       /\ calc.out[2] > 0 /\ calc.out[2] % 4 = 0
       /\ calc.out[1] * calc.out[2] >= calc.arg

(* C12: an export of N = 1 point has width = height = 4, every per-point      *)
(* plane built is 4 x 4 with the point in pixel 0, the zero extent of the     *)
(* bounding box gives the permutation <<0>> and the quantized position 0 on   *)
(* every axis, and the export ends in no error other than a cancellation or   *)
(* a failed write; the centroid texture, when SH data is exported, is         *)
(* 64 * coeffs x 1.                                                           *)
PerPointPlanes == PerPointFiles \cup {"shN_labels.webp"}

BuiltPlanesAre4x4(names) ==
    \A name \in names \cap DOMAIN planes :
        /\ PlaneDims(name) = <<4, 4>>
        /\ DOMAIN planes[name] = 0..15

C12_SinglePointExport ==
    N = 1
    => /\ BuiltPlanesAre4x4(PerPointPlanes)
       /\ "shN_centroids.webp" \in DOMAIN planes
          => /\ PlaneDims("shN_centroids.webp") = <<64 * ShCoeffs(sh_degree), 1>>
             /\ DOMAIN planes["shN_centroids.webp"] = 0..(64 * ShCoeffs(sh_degree) - 1)
       /\ meta # <<>> => (meta["width"] = 4 /\ meta["height"] = 4 /\ meta["count"] = 1)
       /\ indices \in {<<>>, <<0>>}
       /\ "means_l.webp" \in DOMAIN planes
          => /\ planes["means_l.webp"][0] = <<0, 0, 0, 255>>
             /\ planes["means_u.webp"][0] = <<0, 0, 0, 255>>
       /\ result.kind = "exception" => (~is_bundle /\ ~dir.created)
       /\ (pc = "done" /\ (\A i \in 1..Len(log) : log[i].ok)
              /\ (is_bundle \/ dir.created) /\ archive.state # "unopened")
          => result = Ok

C12_Witness ==
    /\ N = 1
    /\ result = Ok
    /\ "shN_centroids.webp" \in WrittenOk
    /\ "shN_labels.webp" \in WrittenOk

\* The statement as it stands: every plane written, the centroid texture
\* included, is 4 x 4.
C12_AllPlanes4x4 ==
    N = 1 => BuiltPlanesAre4x4(DOMAIN planes)

(* C13: for every non-zero quaternion q, pack_quaternion(q) and               *)
(* pack_quaternion(-q) are the same four bytes, ties for the largest          *)
(* absolute value included.                                                   *)
QuatIsZero(q) == \A i \in 1..4 : q[i] = 0

C13_QuaternionSignInvariant ==
    (calc.fn = "quat" /\ calc.done /\ ~QuatIsZero(calc.arg))
    => calc.out.q = calc.out.neg

C13_Witness ==
    /\ calc.fn = "quat"
    /\ calc.done
    /\ calc.arg = <<-1, 1, 0, -1>>
    /\ calc.out.neg[4] = 252

(* C14: for every quaternion, byte 3 of pack_quaternion is 252 + the index of *)
(* a component of greatest absolute value, and bytes 0..2 are the encodings   *)
(* of the three other components, in w,x,y,z order, of the quaternion with    *)
(* that component made non-negative.                                          *)
C14_QuaternionLayout ==
    (calc.fn = "quat" /\ calc.done)
    => LET q   == calc.arg
           b   == calc.out.q
           mi  == b[4] - 252
           l2  == q[1] * q[1] + q[2] * q[2] + q[3] * q[3] + q[4] * q[4]
           sg  == IF q[mi + 1] < 0 THEN -1 ELSE 1
           oth == [j \in 1..3 |-> IF j <= mi THEN j ELSE j + 1]
       IN  /\ b[4] \in 252..255
           /\ \A i \in 1..4 : Abs(q[i]) <= Abs(q[mi + 1])
           /\ \A j \in 1..3 :
                 b[j] = IF l2 = 0 THEN 127 ELSE QuatByte(sg * q[oth[j]], l2)

C14_Witness ==
    /\ calc.fn = "quat"
    /\ calc.done
    /\ calc.arg = <<1, -1, -2, 0>>
    /\ calc.out.q[4] = 254

(* C15: for every non-zero quaternion, the quaternion decoded from the bytes  *)
(* of pack_quaternion (three components from bytes 0..2, the dropped one      *)
(* rebuilt as sqrt(1 - sum of their squares)) has its component of greatest   *)
(* absolute value at the index byte 3 encodes, so that packing it again       *)
(* gives the same byte 3.                                                     *)
\* The squares of the decoded components in units of 1 / (2 * 255^2), the
\* rebuilt one at index mi.
DecodedSquares(b) ==
    LET mi == b[4] - 252
        d(j) == (2 * b[j] - 255) * (2 * b[j] - 255)
        rebuilt == 2 * 255 * 255 - d(1) - d(2) - d(3)
    IN  [i \in 1..4 |-> IF i = mi + 1 THEN rebuilt
                        ELSE IF i <= mi THEN d(i) ELSE d(i - 1)]

C15_DecodedDominantIndex ==
    (calc.fn = "quat" /\ calc.done /\ ~QuatIsZero(calc.arg))
    => /\ DecodedSquares(calc.out.q)[calc.out.q[4] - 252 + 1] >= 0
       /\ QuatMaxIdx(DecodedSquares(calc.out.q)) = calc.out.q[4] - 252

(* C16: for every quaternion the three stored bytes decode to components      *)
(* whose squares sum to at most 1:                                            *)
(* (2*b0-255)^2 + (2*b1-255)^2 + (2*b2-255)^2 <= 2 * 255^2.                   *)
C16_StoredSquaresAtMostOne ==
    (calc.fn = "quat" /\ calc.done)
    => LET b == calc.out.q
       IN  (2 * b[1] - 255) * (2 * b[1] - 255) + (2 * b[2] - 255) * (2 * b[2] - 255)
           + (2 * b[3] - 255) * (2 * b[3] - 255) <= 2 * 255 * 255

C16_Witness ==
    /\ calc.fn = "quat"
    /\ calc.done
    /\ calc.arg = <<2, -2, 2, -2>>
    /\ calc.out.q[1] < 64
    /\ calc.out.q[2] > 191

(* C17: in the sh0 plane the alpha byte of every pixel that holds a point is  *)
(* in 1..255, for an opacity of exactly 0 as well.                            *)
C17_AlphaAtLeastOne ==
    "sh0.webp" \in DOMAIN planes
    => \A i \in 0..(N - 1) : planes["sh0.webp"][i][4] \in 1..255

C17_Witness ==
    /\ "sh0.webp" \in WrittenOk
    /\ N = 2
    /\ points[indices[1] + 1].opacity = 0
    /\ planes["sh0.webp"][0][4] = 1
    /\ planes["sh0.webp"][1][4] = 255

(* C18: when the SH degree is 0, a successful export attempted no shN plane   *)
(* and its manifest has no shN entry: the channel keys are exactly means,     *)
(* scales, quats and sh0, each with a non-empty files array.                  *)
ManifestChannels == DOMAIN meta \ {"version", "count", "width", "height"}

C18_NoShAtDegreeZero ==
    (sh_degree = 0 /\ result = Ok)
    => /\ ShFiles \cap (WriteAttempted \cup DOMAIN planes) = {}
       /\ ManifestChannels = {"means", "scales", "quats", "sh0"}
       /\ \A key \in ManifestChannels : Len(meta[key].files) > 0

C18_Witness ==
    /\ sh_degree = 0
    /\ result = Ok
    /\ N = 2
    /\ MetaName \in WrittenOk

C20_SinkSelection ==
    (caller = "direct" /\ result = Ok)
    => IF is_bundle
       THEN /\ DOMAIN planes \cup {"meta.json"} \subseteq archive.entries
            /\ dir = [created |-> FALSE, files |-> {}]
       ELSE /\ archive.state = "none"
            /\ DOMAIN planes \cup {"meta.json"} \subseteq dir.files

(* C21: in the SH centroid texture every pair (palette entry i, coefficient   *)
(* j) has its own pixel i * coeffs + j inside the texture, and channel c of   *)
(* that pixel is the second-level label of element (j, c) of centroid i       *)
(* under the flattening given to the clustering, where element (j, c) of the  *)
(* [coeffs][3] matrix is at j * 3 + c.                                        *)
C21_CentroidTextureLayout ==
    "shN_centroids.webp" \in DOMAIN planes
    => LET coeffs  == ShCoeffs(sh_degree)
           palette == Len(km["sh"].centroids)
           tex     == planes["shN_centroids.webp"]
       IN  \A i \in 0..(palette - 1), j \in 0..(coeffs - 1) :
              /\ (i * coeffs + j) \in DOMAIN tex
              /\ \A c \in 0..2 :
                    tex[i * coeffs + j][c + 1]
                    = km["codebook"].labels[i * (coeffs * 3) + j * 3 + c + 1] % 256

(* C23: each of the three stored quaternion bytes is                          *)
(* round(clamp(c * 0.5 + 0.5, 0, 1) * 255), rounded to the nearest integer,   *)
(* c being the sqrt(2)-scaled component; the identity gives 128 three times.  *)
\* floor(128 + 127.5 * sqrt(2) * n / sqrt(l2)), clamped to a byte
RoundedByte(n, l2) ==
    LET num == 2 * 255 * 255 * n * n
        fl  == ISqrt(num \div l2)
        ce  == IF fl * fl * l2 = num THEN fl ELSE fl + 1
        v   == IF n >= 0 THEN (256 + fl) \div 2 ELSE (256 - ce) \div 2
    IN  Max(0, Min(255, v))

C23_BytesRoundedToNearest ==
    (calc.fn = "quat" /\ calc.done)
    => LET q0  == calc.arg
           q   == IF QuatIsZero(q0) THEN <<1, 0, 0, 0>> ELSE q0
           b   == calc.out.q
           mi  == b[4] - 252
           l2  == q[1] * q[1] + q[2] * q[2] + q[3] * q[3] + q[4] * q[4]
           sg  == IF q[mi + 1] < 0 THEN -1 ELSE 1
           oth == [j \in 1..3 |-> IF j <= mi THEN j ELSE j + 1]
       IN  \A j \in 1..3 : b[j] = RoundedByte(sg * q[oth[j]], l2)

(* C24: a zero-length quaternion is packed to the bytes of the identity       *)
(* quaternion, byte 3 = 252, and does not stop the export: the rotation stage *)
(* ends in an error only if the write of its plane failed.                    *)
C24_ZeroQuaternionAsIdentity ==
    /\ "quats.webp" \in DOMAIN planes
       => \A i \in 0..(N - 1) :
             QuatIsZero(points[indices[i + 1] + 1].rot)
             => /\ planes["quats.webp"][i] = pack_quaternion(<<1, 0, 0, 0>>)
                /\ planes["quats.webp"][i][4] = 252
    /\ result.kind = "exception" => (~is_bundle /\ ~dir.created)
    /\ result = WriteFailed("quats.webp")
       => log[Len(log)] = [kind |-> "write", name |-> "quats.webp", val |-> 0, ok |-> FALSE]

C24_Witness ==
    /\ result = Ok
    /\ N = 2
    /\ QuatIsZero(points[indices[1] + 1].rot)
    /\ ~QuatIsZero(points[indices[2] + 1].rot)
    /\ "shN_labels.webp" \in WrittenOk

(* C26: in every per-point plane the pixels with index >= N keep the value    *)
(* the buffer was filled with: 255 in all four channels for means_l, means_u, *)
(* quats, scales and shN_labels, 0 in all four channels for sh0.              *)
TrailingPixelsAre(names, fill) ==
    \A name \in names \cap DOMAIN planes :
        \A p \in DOMAIN planes[name] : p >= N => planes[name][p] = fill

C26_TrailingPixelsKeepFill ==
    /\ TrailingPixelsAre(PerPointPlanes \ {"sh0.webp"}, <<255, 255, 255, 255>>)
    /\ TrailingPixelsAre({"sh0.webp"}, <<0, 0, 0, 0>>)
    /\ \A name \in PerPointPlanes \cap DOMAIN planes : DOMAIN planes[name] = 0..(NumPixels(N) - 1)

C26_Witness ==
    /\ N = 2
    /\ "sh0.webp" \in WrittenOk
    /\ "shN_labels.webp" \in WrittenOk
    /\ NumPixels(N) = 16

\* The statement as it stands: the fill is zero RGB with opaque alpha, the
\* same in all per-point planes.
C26_TrailingPixelsZeroOpaque ==
    TrailingPixelsAre(PerPointPlanes, <<0, 0, 0, 255>>)

(* C27: the progress callback of one write_sog call is invoked in the fixed   *)
(* stage order, SH k-means only at an SH degree above 0, with strictly        *)
(* increasing progress values in [0,1] (here in hundredths), and              *)
(* (1.0, "Complete") is invoked, as the last invocation, if and only if the   *)
(* export returns success.                                                    *)
StageProgress ==
    <<[name |-> "Initializing", val |-> 0], [name |-> "Loading data", val |-> 2],
      [name |-> "Morton sort", val |-> 5], [name |-> "Positions", val |-> 10],
      [name |-> "Rotations", val |-> 25], [name |-> "Scales k-means", val |-> 35],
      [name |-> "Colors k-means", val |-> 50], [name |-> "SH k-means", val |-> 65],
      [name |-> "Writing", val |-> 90], [name |-> "Complete", val |-> 100]>>

ExpectedProgress ==
    SelectSeq(StageProgress, LAMBDA e : e.name # "SH k-means" \/ sh_degree > 0)

C27_ProgressOrder ==
    /\ ~CbPresent => CbLog = <<>>
    /\ Len(CbLog) <= Len(ExpectedProgress)
    /\ \A i \in 1..Len(CbLog) :
          /\ CbLog[i].name = ExpectedProgress[i].name
          /\ CbLog[i].val = ExpectedProgress[i].val
          /\ CbLog[i].val \in 0..100
          /\ i > 1 => CbLog[i - 1].val < CbLog[i].val
    /\ CbPresent
       => ((\E i \in 1..Len(CbLog) : CbLog[i].name = "Complete") <=> result = Ok)
    /\ \A i \in 1..Len(log) :
          (log[i].kind = "cb" /\ log[i].name = "Complete") => i = Len(log)

C27_Witness ==
    /\ result = Ok
    /\ Len(CbLog) = 10
    /\ CbLog[8].name = "SH k-means"
    /\ CbLog[10] = [kind |-> "cb", name |-> "Complete", val |-> 100, ok |-> FALSE]

(* C25: in every parallel packing loop, for every split of the index range    *)
(* among the workers and every order of their iterations, each byte offset of *)
(* an output plane is written by at most one worker, and when the loop is     *)
(* over the planes equal those of sequential execution.                       *)
C25_ExclusiveWrites ==
    par.loop \in ParLoops
    => /\ \A x \in par.writes, y \in par.writes :
             (x[1] = y[1] /\ x[2] = y[2]) => x[3] = y[3]
       /\ par.todo = {}
          => \A b \in DOMAIN par.bufs : par.bufs[b] = SequentialPlane(b)

C25_Witness ==
    /\ par.loop = "sh_centroids"
    /\ par.todo = {}
    /\ par.owner[0] # par.owner[1]
    /\ \E x \in par.writes : x[3] = 1
    /\ \E x \in par.writes : x[3] = 2

(* C22: export_html calls that overlap in time share no mutable state: each  *)
(* call reads back and embeds the bundle it wrote itself, and none fails to   *)
(* read its bundle back.                                                      *)
C22_CallsShareNothing ==
    \A p \in DOMAIN exports :
        /\ exports[p].result = "ok"
           => exports[p].data = [owner |-> p, state |-> "complete"]
        /\ exports[p].result # "Failed to read temporary SOG file"

(* C28: export_html cannot be cancelled: whatever the user's callback         *)
(* answers, the wrapper answers true, and no call ends in a cancellation.     *)
C28_HtmlNeverCancels ==
    \A p \in DOMAIN exports : exports[p].result # CancelledSave

C28_Witness ==
    \E p \in DOMAIN exports :
        /\ exports[p].said_no
        /\ exports[p].result = "ok"
        /\ exports[p].data = [owner |-> p, state |-> "complete"]

(* C29: for any sequence of show and render calls the notifications are      *)
(* displayed one at a time in the order of their show calls: one is taken     *)
(* from the queue only while no popup is open, and none is lost or displayed  *)
(* twice.                                                                     *)
C29_NotificationsInOrder ==
    /\ Ids(displayed) \o Ids(pending_) = [i \in 1..shows |-> i]
    /\ \A i \in 1..Len(displayed) : ~displayed[i].over
    /\ popup_open_ => (displayed # <<>> /\ current_.id = displayed[Len(displayed)].id)

C29_Witness ==
    /\ Len(displayed) = 2
    /\ popup_open_
    /\ Len(pending_) = 2

(* C30: in renderTimeline dragging_playhead_ and dragging_keyframe_ are never *)
(* both true: a click on a keyframe does not also start a playhead scrub.     *)
C30_DragsExclusive == ~(dragging_playhead_ /\ dragging_keyframe_)

====
